---------------------------- MODULE Spec2Model ----------------------------
(***************************************************************************)
(* Model of src/stocproc/stocproc.py: the abstract generator core          *)
(* (_absStocProc) and its three concrete mappings StocProc_KLE,            *)
(* StocProc_FFT and StocProc_TanhSinh.                                     *)
(*                                                                         *)
(* Numbers.  Complex numbers are Gaussian integers <<re, im>>.  Times are  *)
(* integer ticks and angular frequencies are counted in quarter turns      *)
(* (pi/2) per tick, so exp(-1j*w*t) is the exact power (-i)^(w*t).  The    *)
(* discrete Fourier transform is exact for the lengths 1, 2 and 4, whose   *)
(* roots of unity are Gaussian integers.  Scales are perfect squares, so   *)
(* np.sqrt is the exact integer root.                                      *)
(*                                                                         *)
(* External collaborators (method_kle, method_fft, fcSpline, numpy's       *)
(* random source) are not part of the file: the discretizers hand back one *)
(* of a few profiles, the random source is a deterministic stream indexed  *)
(* by its state, and building the spline either succeeds or raises.        *)
(***************************************************************************)
EXTENDS Integers, Sequences, FiniteSets, TLC

VARIABLES
    gens,     \* the generator objects, by handle
    rng,      \* state of the process-wide numpy random source
    result,   \* what the last operation returned or raised
    tune      \* a StocProc_TanhSinh construction in progress: its tuning loop

vars == <<gens, rng, result, tune>>

-----------------------------------------------------------------------------
(* Bounds of the model *)

\* supplied y vectors have 0..MaxYLen entries
MaxYLen == 3
\* new_process is called at most MaxProcCnt times per object (_proc_cnt is unbounded)
MaxProcCnt == 2
\* scales are the squares 1, ..., MaxSqrtScale^2
MaxSqrtScale == 2
\* seeds are 0..MaxSeed
MaxSeed == 0
\* the random source has RngMod states
RngMod == 3

\* the tuning loop runs at most MaxIter iterations
MaxIter == 4
\* the relative errors the quadrature reports are 0..MaxD, in units of intgr_tol
MaxD == 2

Gens == {1, 2}

\* seed=None
NoSeed == -1

Seeds == {NoSeed} \cup (0..MaxSeed)

Scales == {k * k : k \in 1..MaxSqrtScale}

-----------------------------------------------------------------------------
(* Complex arithmetic on Gaussian integers *)

CZero == <<0, 0>>

CAdd(a, b) == <<a[1] + b[1], a[2] + b[2]>>

CMul(a, b) == <<a[1] * b[1] - a[2] * b[2], a[1] * b[2] + a[2] * b[1]>>

CReal(r) == <<r, 0>>

\* (-i)^n = exp(-1j * n * pi/2)
ExpMinusI(n) ==
    CASE n % 4 = 0 -> <<1, 0>>
      [] n % 4 = 1 -> <<0, -1>>
      [] n % 4 = 2 -> <<-1, 0>>
      [] OTHER     -> <<0, 1>>

RECURSIVE CSumUpTo(_, _)
CSumUpTo(s, n) == IF n = 0 THEN CZero ELSE CAdd(CSumUpTo(s, n - 1), s[n])

\* np.sum of a complex array
CSum(s) == CSumUpTo(s, Len(s))

-----------------------------------------------------------------------------
(* numpy array operations; a result is [ok, val], ok = FALSE when numpy raises *)

Ok(v) == [ok |-> TRUE, val |-> v]

Raise(e) == [ok |-> FALSE, val |-> <<>>, exc |-> e]

\* a * b for two 1-d arrays, with numpy's broadcasting: equal lengths
\* multiply elementwise, a length-1 operand is stretched, anything else is
\* "operands could not be broadcast together" (ValueError)
NpMul(a, b) ==
    IF Len(a) = Len(b) THEN Ok([k \in 1..Len(a) |-> CMul(a[k], b[k])])
    ELSE IF Len(a) = 1 THEN Ok([k \in 1..Len(b) |-> CMul(a[1], b[k])])
    ELSE IF Len(b) = 1 THEN Ok([k \in 1..Len(a) |-> CMul(a[k], b[1])])
    ELSE Raise("ValueError")

\* scalar * array
NpScale(c, a) == [k \in 1..Len(a) |-> CMul(CReal(c), a[k])]

\* np.fft.fft, exact for the lengths whose roots of unity are Gaussian integers
NpFFT(x) ==
    LET N == Len(x)
        q == IF N = 0 THEN 0 ELSE 4 \div N
    IN  [l \in 1..N |->
            CSum([k \in 1..N |-> CMul(x[k], ExpMinusI(q * (k - 1) * (l - 1)))])]

\* x[0:n]
NpHead(x, n) == [k \in 1..(IF n < Len(x) THEN n ELSE Len(x)) |-> x[k]]

\* np.linspace(0, t_max, n) for n >= 0; the inputs of the model keep
\* t_max a multiple of n-1, so the division is exact
NpLinspace(t_max, n) ==
    [l \in 1..n |-> IF n = 1 THEN 0 ELSE ((l - 1) * t_max) \div (n - 1)]

\* np.sqrt on a perfect square
NpSqrt(n) == CHOOSE r \in 0..n : r * r = n

\* int(np.ceil(a / b)), b > 0
CeilDiv(a, b) == (a + b - 1) \div b

-----------------------------------------------------------------------------
(* Optional values and the fields of an object *)

None == [tag |-> "None"]

Some(v) == [val |-> v, tag |-> "some"]

\* an attribute removed by `del`: reading it raises AttributeError
Deleted == [tag |-> "deleted"]

\* fcSpline.FCS(x_low, x_high, y): the interpolator remembers what it was built from
FCS(x_low, x_high, y) == [tag |-> "FCS", x_low |-> x_low, x_high |-> x_high, y |-> y]

\* no object bound to the handle
NoGen == [variant |-> "none"]

IsGen(g) == g.variant # "none"

-----------------------------------------------------------------------------
(* The process-wide random source (numpy.random) *)

\* np.random.seed(seed)
NpSeed(seed) == seed % RngMod

\* the value the source yields in state s
NpNormalAt(s) == ((s % RngMod) % 3) - 1

\* np.random.normal(size=2*M).view(complex): consecutive reals pair up
NpNormalComplex(s, M) ==
    [k \in 1..M |-> <<NpNormalAt(s + 2 * (k - 1)), NpNormalAt(s + 2 * (k - 1) + 1)>>]

\* the state of the source after drawing n reals
NpAdvance(s, n) == (s + n) % RngMod

-----------------------------------------------------------------------------
(* _absStocProc.__init__ *)

\* the time axis: np.linspace if t_max is given, else t_axis
absStocProc_t(t_max, num_grid_points, t_axis) ==
    IF t_max # None
    THEN IF num_grid_points = None THEN Raise("TypeError")
         ELSE Ok(NpLinspace(t_max.val, num_grid_points.val))
    ELSE IF t_axis = None THEN Raise("TypeError")   \* None[-1]
         ELSE Ok(t_axis.val)

\* the base fields of a new object, or the exception of self.t[-1]
absStocProc_init(t_max, num_grid_points, seed, t_axis, scale) ==
    LET t == absStocProc_t(t_max, num_grid_points, t_axis)
    IN  IF ~t.ok THEN t
        ELSE IF Len(t.val) = 0 THEN Raise("IndexError")
        ELSE Ok([t_max           |-> t.val[Len(t.val)],
                 num_grid_points |-> Len(t.val),
                 scale           |-> scale,
                 t               |-> t.val,
                 _z              |-> None,
                 _interpolator   |-> None,
                 _seed           |-> seed,
                 _proc_cnt       |-> 0,
                 sqrt_scale      |-> NpSqrt(scale)])

\* the random source after __init__ (lines 84-85)
absStocProc_init_rng(seed, r) == IF seed # NoSeed THEN NpSeed(seed) ELSE r

\* an object: the base fields, the variant with its key and numeric profile,
\* and the arguments of the last mapping (y_used, gen_scale: bookkeeping of
\* the model, not attributes)
MkGen(variant, key, profile, base) ==
    [t_max |-> base.t_max,
     variant |-> variant,
     num_grid_points |-> base.num_grid_points,
     scale |-> base.scale,
     t |-> base.t,
     _z |-> base._z,
     _interpolator |-> base._interpolator,
     _seed |-> base._seed,
     _proc_cnt |-> base._proc_cnt,
     sqrt_scale |-> base.sqrt_scale,
     key |-> key,
     profile |-> profile,
     y_used |-> None,
     gen_scale |-> None]

-----------------------------------------------------------------------------
(* The three mappings: calc_z and get_num_y *)

\* np.tensordot(y, sqrt_lambda_ui_fine, axes=([0], [0])).flatten(): the
\* contracted axes must have the same length (no broadcasting)
StocProc_KLE_calc_z(g, y) ==
    LET A  == g.profile.sqrt_lambda_ui_fine
        ng == Len(A[1])
    IN  IF Len(y) # Len(A) THEN Raise("ValueError")
        ELSE Ok([k \in 1..ng |-> CSum([i \in 1..Len(A) |-> CMul(y[i], A[i][k])])])

StocProc_KLE_get_num_y(g) == g.profile.num_ev

\* np.fft.fft(self.yl * y)[0:num_grid_points] * omega_min_correction
StocProc_FFT_calc_z(g, y) ==
    LET p == NpMul(g.profile.yl, y)
    IN  IF ~p.ok THEN p
        ELSE NpMul(NpHead(NpFFT(p.val), g.num_grid_points),
                   g.profile.omega_min_correction)

StocProc_FFT_get_num_y(g) == Len(g.profile.yl)

\* z[i] = np.sum(fl * y * exp(-1j * omega_k * t_i)) for every grid time
StocProc_TanhSinh_at(g, y, ti) ==
    LET p == NpMul(g.profile.fl, y)
        e == [k \in 1..Len(g.profile.omega_k) |-> ExpMinusI(g.profile.omega_k[k] * ti)]
    IN  IF ~p.ok THEN p
        ELSE LET q == NpMul(p.val, e)
             IN  IF ~q.ok THEN q ELSE Ok(CSum(q.val))

StocProc_TanhSinh_calc_z(g, y) ==
    IF \E l \in 1..Len(g.t) : ~StocProc_TanhSinh_at(g, y, g.t[l]).ok
    THEN Raise("ValueError")
    ELSE Ok([l \in 1..g.num_grid_points |-> StocProc_TanhSinh_at(g, y, g.t[l]).val])

StocProc_TanhSinh_get_num_y(g) == Len(g.profile.fl)

\* dispatch on the class of the object
calc_z(g, y) ==
    CASE g.variant = "KLE" -> StocProc_KLE_calc_z(g, y)
      [] g.variant = "FFT" -> StocProc_FFT_calc_z(g, y)
      [] OTHER             -> StocProc_TanhSinh_calc_z(g, y)

get_num_y(g) ==
    CASE g.variant = "KLE" -> StocProc_KLE_get_num_y(g)
      [] g.variant = "FFT" -> StocProc_FFT_get_num_y(g)
      [] OTHER             -> StocProc_TanhSinh_get_num_y(g)

\* _calc_scaled_z, a plausible slip: the realization counter leaks into the sample
calc_scaled_z_adds_counter(g, y) ==
    LET z == calc_z(g, y)
    IN  IF ~z.ok THEN z
        ELSE Ok([k \in 1..Len(z.val) |->
                    CAdd(CMul(CReal(g.sqrt_scale), z.val[k]), CReal(g._proc_cnt))])

\* self.sqrt_scale * self.calc_z(y)
calc_scaled_z(g, y) ==
    LET z == calc_z(g, y)
    IN  IF ~z.ok THEN z ELSE Ok(NpScale(g.sqrt_scale, z.val))

-----------------------------------------------------------------------------
(* __getstate__ and __setstate__ of the three classes *)

\* __getstate__, a plausible slip: the scale is left at the constructor's default
StocProc_KLE_getstate_default_scale(g) ==
    [seed |-> g._seed,
     scale |-> 1,
     t |-> Some(g.t),
     key |-> g.key,
     sqrt_lambda_ui_fine |-> g.profile.sqrt_lambda_ui_fine]

StocProc_KLE_getstate(g) ==
    [seed |-> g._seed,
     scale |-> g.scale,
     t |-> Some(g.t),
     key |-> g.key,
     sqrt_lambda_ui_fine |-> g.profile.sqrt_lambda_ui_fine]

StocProc_KLE_setstate(state) ==
    LET base == absStocProc_init(None, None, state.seed, state.t, state.scale)
    IN  IF ~base.ok THEN base
        ELSE Ok(MkGen("KLE", state.key,
                      [sqrt_lambda_ui_fine |-> state.sqrt_lambda_ui_fine,
                       num_ev |-> Len(state.sqrt_lambda_ui_fine)],
                      base.val))

StocProc_FFT_getstate(g) ==
    [t_max |-> Some(g.t_max),
     seed |-> g._seed,
     num_grid_points |-> Some(g.num_grid_points),
     scale |-> g.scale,
     key |-> g.key,
     yl |-> g.profile.yl,
     omega_min_correction |-> g.profile.omega_min_correction]

StocProc_FFT_setstate(state) ==
    LET base == absStocProc_init(state.t_max, state.num_grid_points, state.seed,
                                 None, state.scale)
    IN  IF ~base.ok THEN base
        ELSE Ok(MkGen("FFT", state.key,
                      [yl |-> state.yl,
                       omega_min_correction |-> state.omega_min_correction],
                      base.val))

StocProc_TanhSinh_getstate(g) ==
    [t_max |-> Some(g.t_max),
     seed |-> g._seed,
     num_grid_points |-> Some(g.num_grid_points),
     scale |-> g.scale,
     key |-> g.key,
     fl |-> g.profile.fl,
     omega_k |-> g.profile.omega_k]

StocProc_TanhSinh_setstate(state) ==
    LET base == absStocProc_init(state.t_max, state.num_grid_points, state.seed,
                                 None, state.scale)
    IN  IF ~base.ok THEN base
        ELSE Ok(MkGen("TanhSinh", state.key,
                      [fl |-> state.fl, omega_k |-> state.omega_k],
                      base.val))

getstate(g) ==
    CASE g.variant = "KLE" -> StocProc_KLE_getstate(g)
      [] g.variant = "FFT" -> StocProc_FFT_getstate(g)
      [] OTHER             -> StocProc_TanhSinh_getstate(g)

setstate(variant, state) ==
    CASE variant = "KLE" -> StocProc_KLE_setstate(state)
      [] variant = "FFT" -> StocProc_FFT_setstate(state)
      [] OTHER           -> StocProc_TanhSinh_setstate(state)

-----------------------------------------------------------------------------
(* What the external discretizers hand back *)

\* method_kle.auto_ng: num_ev rows sqrt(lambda_i) u_i(t_k) on ng fine-grid times
KLE_auto_ng(t_max, num_ev, ng) ==
    [t |-> NpLinspace(t_max, ng),
     sqrt_lambda_ui_fine |-> [i \in 1..num_ev |-> [k \in 1..ng |-> <<i, k - 1>>]]]

\* (num_ev, ng) of the discretizations auto_ng may settle on
KLE_Shapes == {<<2, 2>>, <<1, 3>>}

\* method_fft.calc_ab_N_dx_dt: a2 = 2a and dx in quarter turns per tick, dt in
\* ticks; a full turn is 4, so the contract 2 pi = N dx dt reads N*dx*dt = 4.
\* The third one breaks the contract.
FFT_Discretizations ==
    {[N |-> 2, a2 |-> 0, dx |-> 2, dt |-> 1],
     [N |-> 4, a2 |-> 1, dx |-> 1, dt |-> 1],
     [N |-> 2, a2 |-> 1, dx |-> 1, dt |-> 1]}

\* sqrt(spectral_density(dx*k + a + dx/2) * dx / pi) at node k = 0..N-1
FFT_yl(d) == [k \in 1..d.N |-> CReal(k)]

\* exp(-1j * (a + dx/2) * t)
FFT_omega_min_correction(d, t) ==
    [l \in 1..Len(t) |-> ExpMinusI(((d.a2 + d.dx) \div 2) * t[l])]

\* (t_max, dt_tol) of the Tanh-Sinh constructions, in ticks
TanhSinh_Requests == {<<2, 1>>, <<2, 2>>}

\* the tuned node arrays, of length 2k+1 (k = 1 here): amplitudes fl and nodes
\* omega_k = (yk*w/2, w/2, (2-yk)*w/2)
TanhSinh_fl == <<CReal(1), CReal(2), CReal(1)>>

TanhSinh_omega_k == <<0, 1, 2>>

-----------------------------------------------------------------------------
(* Operations on one object *)

\* lines 150-151: the interpolator is dropped and the counter advances
invalidate(g) == [g EXCEPT !._interpolator = None, !._proc_cnt = @ + 1]

\* line 158: del self._z
del_z(g) == [g EXCEPT !._z = Deleted, !.y_used = None, !.gen_scale = None]

\* line 159, a plausible slip: the sample's owner also takes its length for t_max
store_z_clobbers_t_max(g, z, yv) ==
    [g EXCEPT !._z = Some(z), !.y_used = Some(yv), !.gen_scale = Some(g.scale),
              !.t_max = Len(z)]

\* line 159: self._z = ...; y_used and gen_scale remember the y mapped and the
\* value of self.scale at that moment
store_z(g, z, yv) ==
    [g EXCEPT !._z = Some(z), !.y_used = Some(yv), !.gen_scale = Some(g.scale)]

\* line 162: the spline over [0, t_max] with the sample as control values
build_interpolator(g) == [g EXCEPT !._interpolator = FCS(0, g.t_max, g._z.val)]

\* new_process, a plausible slip: `if seed:` instead of `if seed != None:`, so
\* that seed 0 does not reseed
new_process_truthy_seed(g, r, y, seed, fcs_raises) ==
    LET g1 == invalidate(g)
        r1 == IF seed # NoSeed /\ seed # 0 THEN NpSeed(seed) ELSE r
        M  == get_num_y(g)
        yv == IF y = None THEN NpNormalComplex(r1, M) ELSE y.val
        r2 == IF y = None THEN NpAdvance(r1, 2 * M) ELSE r1
        g2 == del_z(g1)
        zc == calc_scaled_z(g2, yv)
        g3 == store_z(g2, zc.val, yv)
    IN  IF g._z = Deleted
        THEN [rng |-> r2, gen |-> g1, status |-> "AttributeError"]
        ELSE IF ~zc.ok THEN [rng |-> r2, gen |-> g2, status |-> zc.exc]
        ELSE IF fcs_raises THEN [rng |-> r2, gen |-> g3, status |-> "FCSError"]
        ELSE [rng |-> r2, gen |-> build_interpolator(g3), status |-> "ok"]

\* new_process(y, seed): the object and the random source afterwards and the
\* exception raised, if any.  fcs_raises: the spline engine raises on this call.
new_process(g, r, y, seed, fcs_raises) ==
    LET g1 == invalidate(g)
        r1 == IF seed # NoSeed THEN NpSeed(seed) ELSE r
        M  == get_num_y(g)
        yv == IF y = None THEN NpNormalComplex(r1, M) ELSE y.val
        r2 == IF y = None THEN NpAdvance(r1, 2 * M) ELSE r1
        g2 == del_z(g1)
        zc == calc_scaled_z(g2, yv)
        g3 == store_z(g2, zc.val, yv)
    IN  IF g._z = Deleted
        THEN [rng |-> r2, gen |-> g1, status |-> "AttributeError"]   \* del self._z
        ELSE IF ~zc.ok THEN [rng |-> r2, gen |-> g2, status |-> zc.exc]
        ELSE IF fcs_raises THEN [rng |-> r2, gen |-> g3, status |-> "FCSError"]
        ELSE [rng |-> r2, gen |-> build_interpolator(g3), status |-> "ok"]

\* set_scale, a plausible slip: the square root is not refreshed
set_scale_stale_sqrt(g, scale) == [g EXCEPT !.scale = scale]

\* set_scale, a plausible slip: the current sample is rescaled as well
set_scale_rescales_sample(g, scale) ==
    [g EXCEPT !.scale = scale, !.sqrt_scale = NpSqrt(scale),
              !._z = IF @.tag = "some" THEN Some(NpScale(NpSqrt(scale), @.val)) ELSE @]

\* set_scale(scale)
set_scale(g, scale) == [g EXCEPT !.scale = scale, !.sqrt_scale = NpSqrt(scale)]

\* __call__(t): t = None, or the index k of the spline knot x_low + k*dx,
\* where the spline takes the control value y[k]
call(g, t) ==
    IF g._z = Deleted THEN Raise("AttributeError")
    ELSE IF g._z = None THEN Raise("RuntimeError")
    ELSE IF t = None THEN Ok(g._z.val)
    ELSE IF g._interpolator = None THEN Raise("TypeError")
    ELSE Ok(g._interpolator.y[t.val + 1])

\* get_z()
get_z(g) == IF g._z = Deleted THEN Raise("AttributeError") ELSE Ok(g._z)

\* get_time()
get_time(g) == g.t

-----------------------------------------------------------------------------
(* The constructors *)

\* StocProc_KLE.__init__: key, auto_ng, then __setstate__
StocProc_KLE_init(t_max, shape, seed, scale) ==
    LET d == KLE_auto_ng(t_max, shape[1], shape[2])
    IN  StocProc_KLE_setstate(
            [seed |-> seed,
             scale |-> scale,
             t |-> Some(d.t),
             key |-> <<"r_tau", t_max, "tol">>,
             sqrt_lambda_ui_fine |-> d.sqrt_lambda_ui_fine])

\* StocProc_FFT.__init__: the two assertions, the snapped t_max, the base
\* class, then the profile
StocProc_FFT_init(t_max, d, seed, scale) ==
    LET num_grid_points == CeilDiv(t_max, d.dt) + 1
        base == absStocProc_init(Some((num_grid_points - 1) * d.dt),
                                 Some(num_grid_points), seed, None, scale)
    IN  IF d.N * d.dx * d.dt # 4 THEN Raise("AssertionError")
        ELSE IF num_grid_points > d.N THEN Raise("AssertionError")
        ELSE IF ~base.ok THEN base
        ELSE Ok(MkGen("FFT", <<"bcf_ref", t_max, "intgr_tol", "intpl_tol">>,
                      [yl |-> FFT_yl(d),
                       omega_min_correction |->
                           FFT_omega_min_correction(d, base.val.t)],
                      base.val))

\* StocProc_TanhSinh.__init__: N = ceil(t_max / dt_tol), the tuned profile,
\* then the base class with (t_max, N)
StocProc_TanhSinh_init(t_max, dt_tol, seed, scale) ==
    LET N    == CeilDiv(t_max, dt_tol)
        base == absStocProc_init(Some(t_max), Some(N), seed, None, scale)
    IN  IF ~base.ok THEN base
        ELSE Ok(MkGen("TanhSinh", <<"bcf_ref", t_max, "intgr_tol", "intpl_tol">>,
                      [fl |-> TanhSinh_fl, omega_k |-> TanhSinh_omega_k],
                      base.val))

-----------------------------------------------------------------------------
(* StocProc_TanhSinh.__init__ step by step: the tuning loop, the validation  *)
(* and the profile.  h is counted in units of 0.1 / 2^MaxIter and w_max in   *)
(* units of its first value / 2^MaxIter, so that halving h and widening      *)
(* w_max by 1.5 stay exact; errors are counted in units of intgr_tol.        *)

\* h = 0.1
H0 == 2 ^ MaxIter

\* k = 15
K0 == 15

\* kstep = 5
KStep0 == 5

\* conv_fac = 1
ConvFac == 1

\* wmax = method_fft.find_integral_boundary(...)
W0 == 2 ^ MaxIter

\* intgr_tol
IntgrTol == 1

\* the feedback of fourier_integral_TanhSinh_with_feedback: 'ok' or anything else
Feedbacks == {"ok", "not ok"}

\* no construction in progress
NoTune == [pc |-> "idle"]

\* lines 457-466: N and the first parameters
tune_start(t_max, dt_tol) ==
    [k |-> K0,
     N |-> CeilDiv(t_max, dt_tol),
     t_max |-> t_max,
     t |-> <<>>,
     dt_tol |-> dt_tol,
     pc |-> "loop",
     wmax |-> W0,
     h |-> H0,
     kstep |-> KStep0,
     old_d |-> None,
     meas |-> None,
     iter |-> 0,
     tau |-> <<>>,
     num_nodes |-> 0]

\* lines 477-496, a plausible slip: the restart leaves the doubled increment
tune_update_keeps_kstep(u, fb, d) ==
    IF fb = "ok" THEN [u EXCEPT !.k = @ + u.kstep]
    ELSE LET v == [u EXCEPT !.h = @ \div 2, !.k = K0, !.kstep = @ * 2]
         IN  IF u.old_d = None THEN [v EXCEPT !.old_d = Some(d)]
             ELSE IF u.old_d.val < ConvFac * d
                  THEN [v EXCEPT !.wmax = (@ * 3) \div 2, !.h = H0, !.k = K0,
                                 !.old_d = None]
                  ELSE [v EXCEPT !.old_d = Some(d)]

\* lines 477-496: what one iteration does to the parameters after it has
\* measured the error d and got the feedback fb
tune_update(u, fb, d) ==
    IF fb = "ok" THEN [u EXCEPT !.k = @ + u.kstep]
    ELSE LET v == [u EXCEPT !.h = @ \div 2, !.k = K0, !.kstep = @ * 2]
         IN  IF u.old_d = None THEN [v EXCEPT !.old_d = Some(d)]
             ELSE IF u.old_d.val < ConvFac * d
                  THEN [v EXCEPT !.wmax = (@ * 3) \div 2, !.h = H0, !.k = K0,
                                 !.kstep = KStep0, !.old_d = None]
                  ELSE [v EXCEPT !.old_d = Some(d)]

\* lines 468-500: one iteration of `while True`: the quadrature is evaluated
\* with (w_max, h, k) at tau = t_max (meas remembers with what, and what came
\* back), the parameters are updated, then d < intgr_tol decides the exit
tune_iterate(u, fb, d) ==
    [tune_update(u, fb, d) EXCEPT
        !.meas = Some([k |-> u.k,
                       d |-> d,
                       wmax |-> u.wmax,
                       h |-> u.h,
                       fb |-> fb]),
        !.iter = @ + 1,
        !.pc   = IF d < IntgrTol THEN "validate" ELSE "loop"]

\* line 502: tau = np.linspace(0, (N-1)*dt_tol, N)
tune_tau(u) == [l \in 1..u.N |-> (l - 1) * u.dt_tol]

\* lines 502-523: the validation over tau (dv is its largest relative error),
\* the node arrays of length 2k+1 and the base class with (t_max, N)
tune_validate(u, dv) ==
    LET base == absStocProc_init(Some(u.t_max), Some(u.N), NoSeed, None, 1)
    IN  IF ~(dv < IntgrTol) THEN [u EXCEPT !.pc = "AssertionError", !.tau = tune_tau(u)]
        ELSE IF ~base.ok THEN [u EXCEPT !.pc = base.exc, !.tau = tune_tau(u)]
        ELSE [u EXCEPT !.pc = "built", !.tau = tune_tau(u),
                       !.num_nodes = 2 * u.k + 1, !.t = base.val.t]

\* (t_max, dt_tol) of the constructions followed step by step
Tune_Requests == TanhSinh_Requests \cup {<<6, 2>>}

-----------------------------------------------------------------------------
(* Inputs *)

\* the supplied arrays of length n: all ones, and i, 2i, ..., n*i
YArrays(n) == {[k \in 1..n |-> <<1, 0>>], [k \in 1..n |-> <<0, k>>]}

\* y=None or an array of 0..MaxYLen complex numbers
YInputs == {None} \cup {Some(y) : y \in UNION {YArrays(n) : n \in 0..MaxYLen}}

KLE_TMax == {2}

FFT_TMax == {1, 2}

\* the time axes a saved KLE state may carry
KLE_Axes == {None, Some(<<>>), Some(<<0>>)}

\* the (t_max, num_grid_points) a saved FFT or Tanh-Sinh state may carry
SavedGrids == {<<None, None>>, <<Some(1), Some(0)>>, <<Some(1), Some(1)>>}

\* state tuples handed to __setstate__
SavedStates(variant, seed, scale) ==
    CASE variant = "KLE" ->
           {[seed |-> seed,
             scale |-> scale,
             t |-> a,
             key |-> <<"r_tau", 2, "tol">>,
             sqrt_lambda_ui_fine |->
                 KLE_auto_ng(2, 2, IF a = None \/ a = Some(<<>>) THEN 1
                                   ELSE Len(a.val)).sqrt_lambda_ui_fine] :
               a \in KLE_Axes}
      [] variant = "FFT" ->
           {[t_max |-> s[1],
             seed |-> seed,
             num_grid_points |-> s[2],
             scale |-> scale,
             key |-> <<"bcf_ref", 1, "intgr_tol", "intpl_tol">>,
             yl |-> FFT_yl([N |-> 2]),
             omega_min_correction |->
                 [l \in 1..(IF s[2] = None THEN 0 ELSE s[2].val) |-> ExpMinusI(l - 1)]] :
               s \in SavedGrids}
      [] OTHER ->
           {[t_max |-> s[1],
             seed |-> seed,
             num_grid_points |-> s[2],
             scale |-> scale,
             key |-> <<"bcf_ref", 1, "intgr_tol", "intpl_tol">>,
             fl |-> TanhSinh_fl,
             omega_k |-> TanhSinh_omega_k] : s \in SavedGrids}

Variants == {"KLE", "FFT", "TanhSinh"}

-----------------------------------------------------------------------------
(* Actions *)

Res(op, i, status, value, disc) ==
    [status |-> status, op |-> op, value |-> value, disc |-> disc]

\* a constructor or __setstate__ returned s: on success the handle is bound to
\* the new object and the base class has seeded the random source; on an
\* exception nothing is bound.  A handle is bound once; only a restore may
\* rebind it (g = pickle.loads(pickle.dumps(g))).
Bind(op, i, s, seed, disc) ==
    /\ gens[i] = NoGen \/ op = "restore"
    /\ gens' = IF s.ok THEN [gens EXCEPT ![i] = s.val] ELSE gens
    /\ rng' = IF s.ok THEN absStocProc_init_rng(seed, rng) ELSE rng
    /\ result' = Res(op, i, IF s.ok THEN "ok" ELSE s.exc, None, disc)
    /\ UNCHANGED tune

KLE_init(i, t_max, shape, seed, scale) ==
    Bind("KLE_init", i, StocProc_KLE_init(t_max, shape, seed, scale), seed, TRUE)

FFT_init(i, t_max, d, seed, scale) ==
    Bind("FFT_init", i, StocProc_FFT_init(t_max, d, seed, scale), seed, TRUE)

TanhSinh_init(i, rq, seed, scale) ==
    Bind("TanhSinh_init", i, StocProc_TanhSinh_init(rq[1], rq[2], seed, scale),
         seed, TRUE)

\* an object made from a state tuple alone (pickle.loads)
Unpickle(i, variant, state) ==
    Bind("setstate", i, setstate(variant, state), state.seed, FALSE)

\* gens[j] = pickle.loads(pickle.dumps(gens[i]))
Restore(i, j) ==
    /\ IsGen(gens[i])
    /\ Bind("restore", j, setstate(gens[i].variant, getstate(gens[i])),
            gens[i]._seed, FALSE)

NewProcess(i, y, seed, fcs_raises) ==
    /\ IsGen(gens[i])
    /\ gens[i]._proc_cnt < MaxProcCnt
    /\ LET n == new_process(gens[i], rng, y, seed, fcs_raises)
       IN  /\ gens' = [gens EXCEPT ![i] = n.gen]
           /\ rng' = n.rng
           /\ result' = Res("new_process", i, n.status, None, FALSE)
    /\ UNCHANGED tune

SetScale(i, scale) ==
    /\ IsGen(gens[i])
    /\ gens' = [gens EXCEPT ![i] = set_scale(gens[i], scale)]
    /\ result' = Res("set_scale", i, "ok", None, FALSE)
    /\ UNCHANGED <<rng, tune>>

\* the arguments of __call__: None, the first knot and the last
CallTimes(g) == {None, Some(0), Some(g.num_grid_points - 1)}

Call(i, t) ==
    /\ IsGen(gens[i])
    /\ LET c == call(gens[i], t)
       IN  result' = Res("call", i, IF c.ok THEN "ok" ELSE c.exc,
                         IF c.ok THEN Some(c.val) ELSE None, FALSE)
    /\ UNCHANGED <<gens, rng, tune>>

GetZ(i) ==
    /\ IsGen(gens[i])
    /\ LET c == get_z(gens[i])
       IN  result' = Res("get_z", i, IF c.ok THEN "ok" ELSE c.exc,
                         IF c.ok THEN c.val ELSE None, FALSE)
    /\ UNCHANGED <<gens, rng, tune>>

TuneStart(rq) ==
    /\ tune.pc = "idle"
    /\ tune' = tune_start(rq[1], rq[2])
    /\ UNCHANGED <<gens, rng, result>>

\* an iteration; the loop is followed for MaxIter iterations
TuneIterate(fb, d) ==
    /\ tune.pc = "loop"
    /\ tune.iter < MaxIter
    /\ tune' = tune_iterate(tune, fb, d)
    /\ UNCHANGED <<gens, rng, result>>

TuneValidate(dv) ==
    /\ tune.pc = "validate"
    /\ tune' = tune_validate(tune, dv)
    /\ UNCHANGED <<gens, rng, result>>

Init ==
    /\ gens = [i \in Gens |-> NoGen]
    /\ rng \in 0..(RngMod - 1)
    /\ result = Res("none", 0, "ok", None, FALSE)
    /\ tune = NoTune

\* one object, every operation and every input
Next ==
    \/ \E t_max \in KLE_TMax, shape \in KLE_Shapes, seed \in Seeds, scale \in Scales :
           KLE_init(1, t_max, shape, seed, scale)
    \/ \E t_max \in FFT_TMax, d \in FFT_Discretizations, seed \in Seeds, scale \in Scales :
           FFT_init(1, t_max, d, seed, scale)
    \/ \E rq \in TanhSinh_Requests, seed \in Seeds, scale \in Scales :
           TanhSinh_init(1, rq, seed, scale)
    \/ \E v \in Variants, seed \in Seeds, scale \in Scales :
           \E state \in SavedStates(v, seed, scale) : Unpickle(1, v, state)
    \/ Restore(1, 1)
    \/ \E y \in YInputs, seed \in Seeds, fcs_raises \in BOOLEAN :
           NewProcess(1, y, seed, fcs_raises)
    \/ \E scale \in Scales : SetScale(1, scale)
    \/ IsGen(gens[1]) /\ \E t \in CallTimes(gens[1]) : Call(1, t)
    \/ GetZ(1)

Spec == Init /\ [][Next]_vars

\* two objects of one configuration: handle 1 is constructed, handle 2 is
\* restored from it; both then live their own lives on valid inputs
NextPair ==
    \/ \E seed \in Seeds, scale \in Scales :
           KLE_init(1, 2, <<2, 2>>, seed, scale)
    \/ \E seed \in Seeds, scale \in Scales :
           FFT_init(1, 1, [N |-> 2, a2 |-> 0, dx |-> 2, dt |-> 1], seed, scale)
    \/ \E seed \in Seeds, scale \in Scales :
           TanhSinh_init(1, <<2, 1>>, seed, scale)
    \/ gens[2] = NoGen /\ Restore(1, 2)
    \/ \E i \in Gens, seed \in Seeds :
           /\ IsGen(gens[i])
           /\ \E y \in YArrays(get_num_y(gens[i])) : NewProcess(i, Some(y), seed, FALSE)
    \/ \E i \in Gens, scale \in Scales : SetScale(i, scale)

SpecPair == Init /\ [][NextPair]_vars

\* two objects of one configuration that share the random source: each draws
\* its y (with or without a seed) or is given one
NextShared ==
    \/ \E seed \in Seeds, scale \in Scales :
           KLE_init(1, 2, <<2, 2>>, seed, scale)
    \/ \E seed \in Seeds, scale \in Scales :
           FFT_init(1, 1, [N |-> 2, a2 |-> 0, dx |-> 2, dt |-> 1], seed, scale)
    \/ \E seed \in Seeds, scale \in Scales :
           TanhSinh_init(1, <<2, 1>>, seed, scale)
    \/ gens[2] = NoGen /\ Restore(1, 2)
    \/ \E i \in Gens, seed \in Seeds : NewProcess(i, None, seed, FALSE)
    \/ \E i \in Gens, seed \in Seeds :
           /\ IsGen(gens[i])
           /\ \E y \in YArrays(get_num_y(gens[i])) : NewProcess(i, Some(y), seed, FALSE)

SpecShared == Init /\ [][NextShared]_vars

\* the construction of a StocProc_TanhSinh, step by step
NextTune ==
    \/ \E rq \in Tune_Requests : TuneStart(rq)
    \/ \E fb \in Feedbacks, d \in 0..MaxD : TuneIterate(fb, d)
    \/ \E dv \in 0..MaxD : TuneValidate(dv)

SpecTune == Init /\ [][NextTune]_vars

-----------------------------------------------------------------------------
(* Properties *)

HasSample(g) == IsGen(g) /\ g._z.tag = "some"

\* what a reader can observe of the sample and the interpolator
Reads(g) == [t \in CallTimes(g) |-> call(g, t)]

\* the parts fixed at construction
Config(g) ==
    [t_max |-> g.t_max,
     M |-> get_num_y(g),
     num_grid_points |-> g.num_grid_points,
     t |-> get_time(g),
     key |-> g.key,
     profile |-> g.profile]

\* same class, numeric profile and time grid
SameProfile(g, h) ==
    g.variant = h.variant /\ g.profile = h.profile /\ g.t = h.t /\ g.t_max = h.t_max

\* C1: a new_process that raises leaves the object as it was: the same sample,
\* the same interpolator, and every read answers as before.
C1_FailedNewProcessKeepsState ==
    [][(result'.op = "new_process" /\ result'.status # "ok") =>
          \A i \in Gens : IsGen(gens[i]) =>
              /\ gens'[i]._z = gens[i]._z
              /\ gens'[i]._interpolator = gens[i]._interpolator
              /\ Reads(gens'[i]) = Reads(gens[i])
              /\ get_z(gens'[i]) = get_z(gens[i])]_vars

\* C2: on an object that has generated no realization, __call__() and
\* __call__(t) raise the not-ready RuntimeError and get_z() raises as well.
C2_FreshReadsNotReady ==
    \A i \in Gens : (IsGen(gens[i]) /\ gens[i]._proc_cnt = 0) =>
        /\ \A t \in CallTimes(gens[i]) : call(gens[i], t) = Raise("RuntimeError")
        /\ ~get_z(gens[i]).ok

\* C3: new_process(y) with len(y) different from get_num_y() raises and leaves
\* no sample.
C3_WrongLengthRejected ==
    [][\A i \in Gens, y \in YInputs \ {None}, seed \in Seeds, f \in BOOLEAN :
          (NewProcess(i, y, seed, f) /\ Len(y.val) # get_num_y(gens[i])) =>
              (result'.status # "ok" /\ ~HasSample(gens'[i]))]_vars

\* C4: between operations the sample and the interpolator exist together or
\* not at all, and an interpolator is the spline over [0, t_max] of the stored
\* sample.
C4_SampleAndInterpolatorTogether ==
    \A i \in Gens : IsGen(gens[i]) =>
        /\ HasSample(gens[i]) <=> gens[i]._interpolator.tag = "FCS"
        /\ gens[i]._interpolator.tag = "FCS" =>
              /\ HasSample(gens[i])
              /\ gens[i]._interpolator = FCS(0, gens[i].t_max, gens[i]._z.val)

\* C9: every constructed object has a grid of at least two times whose last
\* one is t_max (a time specification that gives fewer is refused).
C9_GridHasTwoPoints ==
    \A i \in Gens : IsGen(gens[i]) =>
        /\ Len(gens[i].t) >= 2
        /\ gens[i].t_max = gens[i].t[Len(gens[i].t)]

\* C5: of two objects with the same profile and grid that mapped the same y,
\* one under scale 1 and the other under scale c, the second sample is sqrt(c)
\* times the first; the scale in force is the value of self.scale at the call.
C5_ScaleLaw ==
    \A i \in Gens, j \in Gens :
        (/\ HasSample(gens[i]) /\ HasSample(gens[j])
         /\ SameProfile(gens[i], gens[j])
         /\ gens[i].y_used = gens[j].y_used
         /\ gens[i].gen_scale = Some(1)) =>
            gens[j]._z.val = NpScale(NpSqrt(gens[j].gen_scale.val), gens[i]._z.val)

\* two objects hold samples of the same y, one made under scale 1 and one
\* under scale 4, and the samples are not zero
C5_Witness ==
    /\ HasSample(gens[1]) /\ HasSample(gens[2])
    /\ SameProfile(gens[1], gens[2])
    /\ gens[1].y_used = gens[2].y_used
    /\ gens[1].gen_scale = Some(1)
    /\ gens[2].gen_scale = Some(4)
    /\ gens[1]._z.val[1] # CZero

\* the sample, the interpolator, the grid, the profile, the counter and all a
\* reader sees are the same in g and h; only scale and sqrt_scale may differ
OnlyScaleDiffers(g, h) ==
    /\ h = [g EXCEPT !.scale = h.scale, !.sqrt_scale = h.sqrt_scale]
    /\ Reads(h) = Reads(g)
    /\ get_z(h) = get_z(g)

\* C6: set_scale changes scale and sqrt_scale and nothing else; every read
\* answers after it as before it.
C6_SetScaleFrame ==
    [][result'.op = "set_scale" =>
          \A i \in Gens : IsGen(gens[i]) =>
              /\ OnlyScaleDiffers(gens[i], gens'[i])
              /\ gens'[i].sqrt_scale = NpSqrt(gens'[i].scale)]_vars

\* set_scale has just run on an object whose sample was made under another scale
C6_Witness ==
    /\ result.op = "set_scale"
    /\ HasSample(gens[1])
    /\ gens[1].gen_scale # Some(gens[1].scale)
    /\ gens[1]._interpolator.tag = "FCS"

\* C7: two objects with the same profile that mapped the same y under the same
\* scale hold the same sample, whatever each did before.
C7_SameYSameZ ==
    \A i \in Gens, j \in Gens :
        (/\ HasSample(gens[i]) /\ HasSample(gens[j])
         /\ SameProfile(gens[i], gens[j])
         /\ gens[i].y_used = gens[j].y_used
         /\ gens[i].gen_scale = gens[j].gen_scale) =>
            gens[i]._z = gens[j]._z

\* the same y under the same scale, after different histories: one object is
\* at its first realization, the other at its second, with different seeds in
\* the random source's past
C7_Witness ==
    /\ HasSample(gens[1]) /\ HasSample(gens[2])
    /\ gens[1].y_used = gens[2].y_used
    /\ gens[1].gen_scale = gens[2].gen_scale
    /\ gens[1]._proc_cnt = 2
    /\ gens[2]._proc_cnt = 1
    /\ gens[1]._z.val[1] # CZero

\* h is what __setstate__(__getstate__(g)) makes of g
RestoredFrom(g, h) ==
    /\ h.variant = g.variant
    /\ Config(h) = Config(g)
    /\ h._seed = g._seed
    /\ h.scale = g.scale
    /\ h.sqrt_scale = NpSqrt(g.scale)
    /\ h._z = None
    /\ h._interpolator = None
    /\ h._proc_cnt = 0
    /\ call(h, None) = Raise("RuntimeError")

\* C8: a restore gives an object with the profile, grid, t_max, number of grid
\* points, input count, seed, key and current scale of the saved one, holding no
\* sample, with no discretizer call; and two objects whose saved states are
\* equal map the same y to the same sample.
C8_RestoreRoundTrip ==
    /\ [][\A i \in Gens, j \in Gens :
             Restore(i, j) =>
                 /\ result'.status = "ok"
                 /\ ~result'.disc
                 /\ RestoredFrom(gens[i], gens'[j])]_vars
    /\ [](\A i \in Gens, j \in Gens :
             (/\ HasSample(gens[i]) /\ HasSample(gens[j])
              /\ getstate(gens[i]) = getstate(gens[j])
              /\ gens[i].gen_scale = Some(gens[i].scale)
              /\ gens[j].gen_scale = Some(gens[j].scale)
              /\ gens[i].y_used = gens[j].y_used) =>
                 gens[i]._z.val = gens[j]._z.val)

\* a seeded object that holds a sample made under scale 1 and was then set to
\* scale 4 has just been saved and restored into the second handle
C8_Witness ==
    /\ result.op = "restore" /\ result.status = "ok"
    /\ HasSample(gens[1])
    /\ gens[1].gen_scale = Some(1)
    /\ gens[1].scale = 4
    /\ gens[1]._seed = 0
    /\ IsGen(gens[2])
    /\ gens[2].scale = 4
    /\ gens[2]._z = None

\* C10: new_process, set_scale, __call__ and get_z leave the grid, t_max, the
\* number of grid points, the profile, the input count and the key alone.
C10_ConfigImmutable ==
    [][result'.op \in {"new_process", "set_scale", "call", "get_z"} =>
          \A i \in Gens : IsGen(gens[i]) =>
              /\ IsGen(gens'[i])
              /\ Config(gens'[i]) = Config(gens[i])
              /\ gens'[i].variant = gens[i].variant]_vars

\* an object has been through two realizations, the last one stored, and a
\* change of scale
C10_Witness ==
    /\ HasSample(gens[1])
    /\ gens[1]._proc_cnt >= 2
    /\ gens[1].scale # gens[1].gen_scale.val
    /\ result.op = "call"

\* C11: new_process(seed=s) without y reseeds the shared source with s (s = 0
\* included) before it draws: the y drawn, the sample and the state the source
\* is left in are those any object of the same profile and scale gets from any
\* state of the source; with y supplied nothing is drawn, and a seed still
\* reseeds the source.
C11_SeedDeterminesDraw ==
    [][\A i \in Gens, seed \in Seeds :
          (result'.op = "new_process" /\ IsGen(gens[i]) /\ gens'[i] # gens[i]) =>
          /\ (seed # NoSeed /\ NewProcess(i, None, seed, FALSE)) =>
                /\ gens'[i].y_used =
                       Some(NpNormalComplex(NpSeed(seed), get_num_y(gens[i])))
                /\ \A j \in Gens, r \in 0..(RngMod - 1) :
                       (/\ HasSample(gens[j]) \/ (IsGen(gens[j]) /\ gens[j]._z = None)
                        /\ SameProfile(gens[j], gens[i])
                        /\ gens[j].scale = gens[i].scale) =>
                           LET n == new_process(gens[j], r, None, seed, FALSE)
                           IN  /\ n.gen._z = gens'[i]._z
                               /\ n.gen.y_used = gens'[i].y_used
                               /\ n.rng = rng'
          /\ (\E y \in YArrays(get_num_y(gens[i])) :
                  gens'[i].y_used = Some(y) /\ NewProcess(i, Some(y), seed, FALSE)) =>
                rng' = IF seed # NoSeed THEN NpSeed(seed) ELSE rng]_vars

\* the second object, at its second realization, holds the vector the source
\* yields after seed 0, while the first object drew another vector from the
\* same source
C11_Witness ==
    /\ result.op = "new_process" /\ result.status = "ok"
    /\ HasSample(gens[1]) /\ HasSample(gens[2])
    /\ gens[2]._proc_cnt = 2
    /\ gens[2].y_used = Some(NpNormalComplex(NpSeed(0), get_num_y(gens[2])))
    /\ gens[1].y_used # gens[2].y_used
    /\ gens[1].y_used \notin {Some(y) : y \in YArrays(get_num_y(gens[1]))}
    /\ rng = NpAdvance(NpSeed(0), 2 * get_num_y(gens[2]))

\* the three transitions of an iteration that measured (fb, d) from u to v
TuneGrow(u, v) ==
    /\ v.k = u.k + u.kstep
    /\ v.h = u.h /\ v.kstep = u.kstep /\ v.wmax = u.wmax

TuneHalve(u, v) ==
    /\ 2 * v.h = u.h /\ v.k = K0 /\ v.kstep = 2 * u.kstep
    /\ v.wmax = u.wmax

TuneRestart(u, v) ==
    /\ 2 * v.wmax = 3 * u.wmax
    /\ v.h = H0 /\ v.k = K0 /\ v.kstep = KStep0 /\ v.old_d = None

\* C12: every iteration of the tuning loop is one of three transitions: on
\* feedback ok k grows by the increment and h, the increment and w_max stay;
\* otherwise h is halved, k is reset and the increment doubled, unless an
\* error is on record and is below the new one, and then w_max grows by 1.5
\* and h, k, the increment and the recorded error restart; w_max never
\* decreases and h increases only by a restart.
C12_TuningTransitions ==
    [][(tune.pc = "loop" /\ tune'.pc \in {"loop", "validate"}) =>
          LET fb    == tune'.meas.val.fb
              d     == tune'.meas.val.d
              stall == tune.old_d # None /\ tune.old_d.val < d
          IN  /\ fb = "ok" => TuneGrow(tune, tune')
              /\ (fb # "ok" /\ ~stall) => TuneHalve(tune, tune')
              /\ (fb # "ok" /\ stall) => TuneRestart(tune, tune')
              /\ tune'.wmax >= tune.wmax
              /\ tune'.h > tune.h => (fb # "ok" /\ stall)]_vars

\* after a restart that widened w_max, an iteration with feedback ok has
\* grown k from its first value
C12_Witness ==
    /\ tune.pc = "loop"
    /\ tune.wmax > W0
    /\ tune.meas.val.fb = "ok"
    /\ tune.k = K0 + KStep0
    /\ tune.h = H0

\* C13: when the loop has ended, (h, k, w_max) are the parameters the last
\* iteration evaluated the quadrature with, whose error was below intgr_tol,
\* and the node arrays get their 2k+1 entries from that k.
C13_ExitKeepsMeasuredParameters ==
    tune.pc \in {"validate", "built", "AssertionError"} =>
        /\ tune.meas.val.d < IntgrTol
        /\ tune.h = tune.meas.val.h
        /\ tune.k = tune.meas.val.k
        /\ tune.wmax = tune.meas.val.wmax
        /\ tune.pc = "built" => tune.num_nodes = 2 * tune.meas.val.k + 1

\* C14: the times the tuned quadrature is validated at are the time grid of
\* the object: N = ceil(t_max / dt_tol) equidistant times from 0 to t_max,
\* no further apart than dt_tol.
C14_ValidationOnOwnGrid ==
    tune.pc = "built" =>
        /\ Len(tune.t) = tune.N
        /\ tune.tau = tune.t
        /\ tune.tau[tune.N] = tune.t_max
        /\ \A l \in 1..(tune.N - 1) : tune.t[l + 1] - tune.t[l] <= tune.dt_tol

=============================================================================
